---- MODULE Spec2Model ----
(***************************************************************************)
(* CareerMatch: the job lifecycle (webapp.py), the two-stage LLM pipeline  *)
(* (web_helpers.py) and the pure functions they rest on (compute_fit_score,*)
(* extract_json_safely, SuggestionItem.normalize_section, decide_ui).      *)
(*                                                                         *)
(* Conventions.  A Python str whose characters matter is a sequence of     *)
(* one-character strings.  An optional value is <<>> (None) or <<x>>.      *)
(* A str that is only compared (status, message) is a TLA+ string, and     *)
(* None in such a field is the string NoneVal.                             *)
(***************************************************************************)
EXTENDS Integers, Sequences, FiniteSets, TLC

VARIABLES
    JOB_STATUS,   \* webapp.JOB_STATUS: job id -> status entry
    upc,          \* per job id: position of the upload() request handling it
    wpc,          \* per job id: position of its background task run_job
    loc,          \* per job id: the locals of run_job / process_job
    files,        \* per job id: the files written under jobs/<id> and outputs/<id>
    resp,         \* body of the last /api/status response
    call,         \* the arguments of a pure-function call
    ret           \* its result: <<>> while pending, <<value>> once returned

vars == <<JOB_STATUS, upc, wpc, loc, files, resp, call, ret>>
jobVars == <<JOB_STATUS, upc, wpc, loc, files, resp>>

NoneVal == "None"

----------------------------------------------------------------------------
(* Bounds *)

MaxJobs  == 2      \* job ids handed out by new_job_id
MaxItems == 4      \* longest must-have / nice-to-have list scored
MaxGaps  == 2      \* longest gap list given to decide_ui
MaxText  == 5      \* longest free text given to extract_json_safely
MaxRenderMust == 4 \* longest must-have list of a rendered report
MaxRenderGaps == 5 \* longest gap list of a rendered report

----------------------------------------------------------------------------
(* Domain model (core.py) *)

Statuses == {"match", "partial", "missing"}
Impacts  == {"high", "medium", "low"}

\* MatchItem lists of length n; the requirement is named after its position
MatchLists(n) ==
    { [i \in 1..n |-> [requirement |-> i, status |-> st[i]]] : st \in [1..n -> Statuses] }

MatchListsUpTo(n) == UNION { MatchLists(k) : k \in 0..n }

GapLists(n) ==
    { [i \in 1..n |-> [gap |-> i, impact |-> im[i]]] : im \in [1..n -> Impacts] }

GapListsUpTo(n) == UNION { GapLists(k) : k \in 0..n }

----------------------------------------------------------------------------
(* compute_fit_score (web_helpers.py).  The code adds binary doubles; the  *)
(* model adds exact fractions <<numerator, denominator>>.  For lists of up *)
(* to 5 items the double sum rounds to the same integer as the exact sum   *)
(* (checked by enumeration against the Python source); from 6 items on the *)
(* accumulated error can move a sum off an exact half.                     *)

must_total == 70
nice_total == 30

\* the loop of section() with the two branches' weights exchanged in size:
\* a partial item earns 1.5*w, more than a match
RECURSIVE SectionUnits_partial_heavy(_, _)
SectionUnits_partial_heavy(items, i) ==
    IF i = 0 THEN 0
    ELSE SectionUnits_partial_heavy(items, i - 1) +
         ( IF items[i].status = "match" THEN 2
           ELSE IF items[i].status = "partial" THEN 3
           ELSE 0 )

\* units of half a weight contributed by items[1..i]: the loop of section()
RECURSIVE SectionUnits(_, _)
SectionUnits(items, i) ==
    IF i = 0 THEN 0
    ELSE SectionUnits(items, i - 1) +
         ( IF items[i].status = "match" THEN 2
           ELSE IF items[i].status = "partial" THEN 1
           ELSE 0 )

\* section(items, total): 0.0 for an empty list, else sum of w or 0.5*w, w = total/len
section(items, total) ==
    IF Len(items) = 0 THEN <<0, 1>>
    ELSE <<total * SectionUnits(items, Len(items)), 2 * Len(items)>>

FracAdd(a, b) == <<a[1] * b[2] + b[1] * a[2], a[2] * b[2]>>

\* int(x): truncation, the rounding left out
round_truncating(f) == f[1] \div f[2]

\* Python 3 round(x) of a non-negative x = f[1]/f[2]: nearest integer, ties to even
round(f) ==
    LET q == f[1] \div f[2]
        r == f[1] % f[2]
    IN  IF 2 * r < f[2] THEN q
        ELSE IF 2 * r > f[2] THEN q + 1
        ELSE IF q % 2 = 0 THEN q ELSE q + 1

Min(a, b) == IF a < b THEN a ELSE b
Max(a, b) == IF a > b THEN a ELSE b

compute_fit_score(must_have, nice_to_have) ==
    LET score   == FracAdd(section(must_have, must_total), section(nice_to_have, nice_total))
        score_i == round(score)
    IN  Max(0, Min(100, score_i))

----------------------------------------------------------------------------
(* Initial values of the job machine, shared by every specification *)

JobIds == 1..MaxJobs

\* the locals of one run_job call and what it has sent and written so far:
\* exc is the exception on its way to run_job's handler, failed_at the step that
\* raised it, sugg_failed whether process_job caught a stage-2 exception, llm_calls the
\* prompts sent to the client, json_report / html_report the contents written to
\* outputs/<id>/fit_report.json and report.html, paths process_job's return value,
\* status_writes the statuses run_job has passed to set_status, in order
EmptyLoc == [ fit_core |-> <<>>, computed_score |-> <<>>, suggestions |-> <<>>,
              sugg_failed |-> FALSE, final_report |-> <<>>, exc |-> <<>>, failed_at |-> "none",
              llm_calls |-> <<>>, json_report |-> <<>>, html_report |-> <<>>, paths |-> <<>>,
              status_writes |-> <<>> ]

JobInit ==
    /\ JOB_STATUS = <<>>
    /\ upc = [j \in JobIds |-> "none"]
    /\ wpc = [j \in JobIds |-> "none"]
    /\ loc = [j \in JobIds |-> EmptyLoc]
    /\ files = [j \in JobIds |-> {}]
    /\ resp = <<>>

----------------------------------------------------------------------------
(* Specification of compute_fit_score: every pair of lists, then the call *)

ScoreInit ==
    /\ JobInit
    /\ call \in [must_have : MatchListsUpTo(MaxItems), nice_to_have : MatchListsUpTo(MaxItems)]
    /\ ret = <<>>

ScoreCall ==
    /\ ret = <<>>
    /\ ret' = <<compute_fit_score(call.must_have, call.nice_to_have)>>
    /\ UNCHANGED <<call, jobVars>>

ScoreNext == ScoreCall

ScoreSpec == ScoreInit /\ [][ScoreNext]_vars

Count(items, st) == Cardinality({i \in DOMAIN items : items[i].status = st})

\* what a section earns, as a fraction: weight/len per match, half of it per partial
ExpectedShare(items, weight) ==
    IF items = <<>> THEN <<0, 1>>
    ELSE <<weight * (2 * Count(items, "match") + Count(items, "partial")), 2 * Len(items)>>

ExpectedSum == FracAdd(ExpectedShare(call.must_have, 70), ExpectedShare(call.nice_to_have, 30))

StatusesOf(items) == [i \in DOMAIN items |-> items[i].status]

\* R is an integer nearest to f, and on an exact half the even one
NearestTiesEven(R, f) ==
    LET d == 2 * (R * f[2] - f[1])
    IN  /\ d <= f[2] /\ -d <= f[2]
        /\ (d = f[2] \/ -d = f[2]) => R % 2 = 0

\* R is the integer nearest to f, and on an exact half the upper one
NearestTiesUp(R, f) ==
    LET d == 2 * (R * f[2] - f[1])
    IN  d <= f[2] /\ -d < f[2]

ScoreExamples ==
    /\ (call.must_have = <<>> /\ call.nice_to_have = <<>>) => ret[1] = 0
    /\ ( /\ StatusesOf(call.must_have) = <<"match", "partial", "missing">>
         /\ StatusesOf(call.nice_to_have) = <<"match">> ) => ret[1] = 65

\* C6 (as amended): compute_fit_score returns the sum over both sections of
\* (section weight / item count) per match item plus half that per partial item,
\* an empty section contributing 0, rounded to the nearest integer with an exact
\* half going to the even neighbour, within 0..100; two empty lists give 0 and
\* [match, partial, missing] with [match] gives 65.
C6_ScoreFormulaTiesToEven ==
    ret # <<>> =>
        /\ ret[1] \in 0..100
        /\ NearestTiesEven(ret[1], ExpectedSum)
        /\ ScoreExamples

\* an exact half whose lower neighbour is even: 3 of 4 must-haves match, 52.5 -> 52
C6_Witness ==
    /\ ret # <<>>
    /\ Len(call.must_have) = 4 /\ Count(call.must_have, "match") = 3
    /\ Count(call.must_have, "missing") = 1 /\ call.nice_to_have = <<>>
    /\ 2 * (ExpectedSum[1] % ExpectedSum[2]) = ExpectedSum[2]
    /\ ret[1] = 52

\* C6 as stated: the same, an exact half rounding up
C6_Original_TiesRoundUp ==
    ret # <<>> =>
        /\ ret[1] \in 0..100
        /\ NearestTiesUp(ret[1], ExpectedSum)
        /\ ScoreExamples

Rank(st) == CASE st = "missing" -> 0 [] st = "partial" -> 1 [] st = "match" -> 2

\* the lists that differ from items in one item, whose status is higher
Upgrades(items) ==
    UNION { { [items EXCEPT ![i].status = st] : st \in {x \in Statuses : Rank(x) > Rank(items[i].status)} } :
            i \in DOMAIN items }

\* C7: upgrading the status of any single item (missing to partial, partial to
\* match, missing to match), everything else unchanged, never yields a smaller
\* score, rounding included.
C7_ScoreMonotonic ==
    ret # <<>> =>
        /\ \A m \in Upgrades(call.must_have) :
               compute_fit_score(m, call.nice_to_have) >= ret[1]
        /\ \A n \in Upgrades(call.nice_to_have) :
               compute_fit_score(call.must_have, n) >= ret[1]

\* a scored pair in which both lists have an upgrade, one of which raises the score
C7_Witness ==
    /\ ret # <<>>
    /\ Upgrades(call.nice_to_have) # {}
    /\ \E m \in Upgrades(call.must_have) : compute_fit_score(m, call.nice_to_have) > ret[1]

----------------------------------------------------------------------------
(* Python str helpers over sequences of characters *)

\* the characters Python's str.strip() and the regex class \s treat as whitespace
Whitespace == {" ", "\t", "\n", "\r", "\f"}

LowerCase ==
    [ c \in {"A", "B", "C", "D", "E", "F", "G", "H", "I", "J", "K", "L", "M", "N", "O",
             "P", "R", "S", "T", "U", "W", "X", "Y"} |->
        CASE c = "A" -> "a" [] c = "B" -> "b" [] c = "C" -> "c" [] c = "D" -> "d"
          [] c = "E" -> "e" [] c = "F" -> "f" [] c = "G" -> "g" [] c = "H" -> "h" [] c = "I" -> "i"
          [] c = "J" -> "j" [] c = "K" -> "k" [] c = "L" -> "l" [] c = "M" -> "m"
          [] c = "N" -> "n" [] c = "O" -> "o" [] c = "P" -> "p" [] c = "R" -> "r"
          [] c = "S" -> "s" [] c = "T" -> "t" [] c = "U" -> "u" [] c = "W" -> "w"
          [] c = "X" -> "x" [] c = "Y" -> "y" ]

\* str.lower()
lower(s) == [i \in 1..Len(s) |-> IF s[i] \in DOMAIN LowerCase THEN LowerCase[s[i]] ELSE s[i]]

\* str.strip(): drop the leading and the trailing whitespace
strip(s) ==
    LET keep == {i \in 1..Len(s) : s[i] \notin Whitespace}
    IN  IF keep = {} THEN <<>>
        ELSE LET lo == CHOOSE i \in keep : \A k \in keep : i <= k
                 hi == CHOOSE i \in keep : \A k \in keep : i >= k
             IN  SubSeq(s, lo, hi)

----------------------------------------------------------------------------
(* SuggestionItem and its section validator (core.py) *)

W_summary        == <<"s","u","m","m","a","r","y">>
W_experience     == <<"e","x","p","e","r","i","e","n","c","e">>
W_skills         == <<"s","k","i","l","l","s">>
W_projects       == <<"p","r","o","j","e","c","t","s">>
W_other          == <<"o","t","h","e","r">>
W_education      == <<"e","d","u","c","a","t","i","o","n">>
W_certifications == <<"c","e","r","t","i","f","i","c","a","t","i","o","n","s">>
W_certification  == <<"c","e","r","t","i","f","i","c","a","t","i","o","n">>
W_training       == <<"t","r","a","i","n","i","n","g">>
W_courses        == <<"c","o","u","r","s","e","s">>
W_course         == <<"c","o","u","r","s","e">>
W_project        == <<"p","r","o","j","e","c","t">>
W_work_experience == <<"w","o","r","k"," ","e","x","p","e","r","i","e","n","c","e">>
W_about          == <<"a","b","o","u","t">>

ALLOWED_SECTIONS == {W_summary, W_experience, W_skills, W_projects, W_other}

\* the synonym table of normalize_section, as (key, value) pairs
mapping ==
    { <<W_education, W_other>>, <<W_certifications, W_skills>>,
      <<W_certification, W_skills>>, <<W_training, W_skills>>,
      <<W_courses, W_skills>>, <<W_course, W_skills>>,
      <<W_projects, W_projects>>, <<W_project, W_projects>>,
      <<W_work_experience, W_experience>>, <<W_experience, W_experience>>,
      <<W_skills, W_skills>>, <<W_summary, W_summary>>, <<W_about, W_summary>> }

\* mapping.get(s, s)
mapping_get(s) ==
    IF \E kv \in mapping : kv[1] = s
    THEN (CHOOSE kv \in mapping : kv[1] = s)[2]
    ELSE s

\* a JSON value is [isstr |-> TRUE, chars |-> <<...>>] or [isstr |-> FALSE, chars |-> <<>>]
Str(cs)  == [isstr |-> TRUE, chars |-> cs]
NonStr   == [isstr |-> FALSE, chars |-> <<>>]

\* the validator without its final membership test
normalize_section_unchecked(v) ==
    IF ~v.isstr THEN W_other
    ELSE mapping_get(lower(strip(v.chars)))

normalize_section(v) ==
    IF ~v.isstr THEN W_other
    ELSE LET s == mapping_get(lower(strip(v.chars)))
         IN  IF s \in ALLOWED_SECTIONS THEN s ELSE W_other

Priorities == {"high", "medium", "low"}

\* SuggestionItem.model_validate(d): <<item>>, or <<>> for a ValidationError.
\* d.section is absent (<<>>) or <<value>>; d.priority is absent or <<string>>.
SuggestionItem(d) ==
    IF d.section = <<>> THEN <<>>                                  \* required field
    ELSE IF d.priority # <<>> /\ d.priority[1] \notin Priorities THEN <<>>
    ELSE << [ section  |-> normalize_section(d.section[1]),
              change   |-> d.change,
              reason   |-> d.reason,
              priority |-> IF d.priority = <<>> THEN "medium" ELSE d.priority[1] ] >>

----------------------------------------------------------------------------
(* Specification of SuggestionItem construction *)

\* base words: every key of the table, the allowed values, and strangers
SectionWords ==
    { kv[1] : kv \in mapping } \cup ALLOWED_SECTIONS \cup
    { <<>>, <<"r","a","n","d","o","m"," ","t","h","i","n","g">>,
      <<"s","k","i","l","l">>, <<"w","o","r","k"," "," ","e","x","p","e","r","i","e","n","c","e">>,
      <<"o","t","h","e","r","s">> }

UpperCase == [c \in {LowerCase[u] : u \in DOMAIN LowerCase} |->
                 CHOOSE u \in DOMAIN LowerCase : LowerCase[u] = c]

upper(s) == [i \in 1..Len(s) |-> IF s[i] \in DOMAIN UpperCase THEN UpperCase[s[i]] ELSE s[i]]
capitalize(s) == [i \in 1..Len(s) |-> IF i = 1 /\ s[i] \in DOMAIN UpperCase THEN UpperCase[s[i]] ELSE s[i]]

CaseVariants(w) == {w, upper(w), capitalize(w)}
Paddings == {<<>>, <<" ">>, <<"\t", "\n">>}

SectionInputs ==
    UNION { { [word |-> w, raw |-> <<Str(l \o c \o r)>>] :
                c \in CaseVariants(w), l \in Paddings, r \in Paddings } : w \in SectionWords }
    \cup { [word |-> <<>>, raw |-> <<NonStr>>], [word |-> <<>>, raw |-> <<>>] }

SectionInit ==
    /\ JobInit
    /\ call \in { [word |-> x.word, section |-> x.raw, change |-> "c", reason |-> "r", priority |-> p] :
                     x \in SectionInputs, p \in {<<>>, <<"high">>, <<"urgent">>} }
    /\ ret = <<>>

SectionCall ==
    /\ ret = <<>>
    /\ ret' = <<SuggestionItem(call)>>
    /\ UNCHANGED <<call, jobVars>>

SectionNext == SectionCall

SectionSpec == SectionInit /\ [][SectionNext]_vars

\* C9: from any raw section (a string in any letter case with surrounding
\* whitespace, or a non-string), construction does not fail because of section,
\* and the stored section is one of the five allowed values: synonyms map through
\* the table ("Certifications" to skills, "education" to other), every other
\* value becomes other, and a raw string that is not allowed is never stored.
C9_SectionCanonical ==
    (ret # <<>> /\ call.section # <<>>) =>
        /\ ret[1] # <<>> <=> (call.priority = <<>> \/ call.priority[1] \in {"high", "medium", "low"})
        /\ ret[1] # <<>> =>
            LET stored == ret[1][1].section
                raw == call.section[1]
            IN  /\ stored \in {W_summary, W_experience, W_skills, W_projects, W_other}
                /\ ~raw.isstr => stored = W_other
                /\ raw.isstr =>
                    /\ \A kv \in mapping : call.word = kv[1] => stored = kv[2]
                    /\ call.word = W_certifications => stored = W_skills
                    /\ call.word = W_education => stored = W_other
                    /\ ( /\ \A kv \in mapping : call.word # kv[1]
                         /\ call.word \notin {W_summary, W_experience, W_skills, W_projects, W_other} )
                       => stored = W_other
                    /\ stored # raw.chars => raw.chars \notin {W_summary, W_experience, W_skills, W_projects, W_other}

\* "Certifications" in another letter case and padded, stored as skills
C9_Witness ==
    /\ ret # <<>> /\ call.section # <<>> /\ ret[1] # <<>>
    /\ call.section[1].isstr
    /\ call.word = W_certifications
    /\ call.section[1].chars # W_certifications
    /\ Len(call.section[1].chars) > Len(W_certifications)
    /\ ret[1][1].section = W_skills

----------------------------------------------------------------------------
(* extract_json_safely (web_helpers.py) *)

\* the non-greedy reading of the same pattern: the span ends at the first "}"
re_search_braces_lazy(text) ==
    LET starts == {i \in 1..Len(text) : text[i] = "{" /\ \E j \in (i+1)..Len(text) : text[j] = "}"}
    IN  IF starts = {} THEN <<>>
        ELSE LET i == CHOOSE x \in starts : \A y \in starts : x <= y
                 ends == {j \in (i+1)..Len(text) : text[j] = "}"}
                 j == CHOOSE x \in ends : \A y \in ends : x <= y
             IN  <<i, j>>

\* re.search(r"\{.*\}", text, flags=re.DOTALL): <<start, end>> of the leftmost match,
\* which the greedy .* extends to the last "}" of the text; <<>> when nothing matches
re_search_braces(text) ==
    LET starts == {i \in 1..Len(text) : text[i] = "{" /\ \E j \in (i+1)..Len(text) : text[j] = "}"}
    IN  IF starts = {} THEN <<>>
        ELSE LET i == CHOOSE x \in starts : \A y \in starts : x <= y
                 ends == {j \in (i+1)..Len(text) : text[j] = "}"}
                 j == CHOOSE x \in ends : \A y \in ends : x >= y
             IN  <<i, j>>

\* s.replace("\r", " ").replace("\n", " ")
replace_crlf(s) == [i \in 1..Len(s) |-> IF s[i] \in {"\r", "\n"} THEN " " ELSE s[i]]

Closers == {"}", "]"}

\* re.sub(r",\s*([}\]])", r"\1", s) from position i on: one left-to-right pass over
\* non-overlapping matches; a match is a comma, the whole whitespace run after it,
\* and a closer, and it is replaced by the closer
RECURSIVE sub_trailing_commas(_, _)
sub_trailing_commas(s, i) ==
    IF i > Len(s) THEN <<>>
    ELSE LET after == {k \in (i+1)..Len(s) : s[k] \notin Whitespace}
             k == IF after = {} THEN 0 ELSE CHOOSE x \in after : \A y \in after : x <= y
         IN  IF s[i] = "," /\ k # 0 /\ s[k] \in Closers
             THEN <<s[k]>> \o sub_trailing_commas(s, k + 1)
             ELSE <<s[i]>> \o sub_trailing_commas(s, i + 1)

\* returns [error, value]: error is NoneVal on success, else the ValueError's message
extract_json_safely(text) ==
    IF Len(text) = 0 THEN [error |-> "Empty LLM output", value |-> <<>>]
    ELSE LET m == re_search_braces(text)
         IN  IF m = <<>> THEN [error |-> "No JSON object found in LLM output", value |-> <<>>]
             ELSE LET s0 == strip(SubSeq(text, m[1], m[2]))
                      s1 == replace_crlf(s0)
                  IN  [error |-> NoneVal, value |-> sub_trailing_commas(s1, 1)]

----------------------------------------------------------------------------
(* Specification of extract_json_safely *)

TextChars == {"{", "}", "]", ",", " ", "\n", "\r", "a"}

Texts(n) == UNION { [1..k -> TextChars] : k \in 0..n }

ExampleText == <<"H", "e", "r", "e", " ", "i", "s", " ", "t", "h", "e", " ", "r", "e", "s", "u", "l", "t", ":", " ", "{", "\"", "a", "\"", ":", "1", ",", "}", " ", "d", "o", "n", "e">>

ExtractInit ==
    /\ JobInit
    /\ call \in { [text |-> t] : t \in Texts(MaxText) \cup {ExampleText} }
    /\ ret = <<>>

ExtractCall ==
    /\ ret = <<>>
    /\ ret' = <<extract_json_safely(call.text)>>
    /\ UNCHANGED <<call, jobVars>>

ExtractNext == ExtractCall

ExtractSpec == ExtractInit /\ [][ExtractNext]_vars

HasSpan(t) == \E i, j \in DOMAIN t : i < j /\ t[i] = "{" /\ t[j] = "}"

FirstOpen(t) == CHOOSE i \in DOMAIN t : t[i] = "{" /\ \A k \in DOMAIN t : t[k] = "{" => i <= k
LastClose(t) == CHOOSE j \in DOMAIN t : t[j] = "}" /\ \A k \in DOMAIN t : t[k] = "}" => j >= k

\* s without its commas and whitespace
Skeleton(s) == SelectSeq(s, LAMBDA c : c \notin Whitespace \cup {","})

Commas(s) == {i \in DOMAIN s : s[i] = ","}

\* the commas of s followed only by whitespace and then a closing } or ]
TrailingCommas(s) ==
    {i \in Commas(s) : \E k \in DOMAIN s :
        k > i /\ s[k] \in {"}", "]"} /\ \A x \in (i+1)..(k-1) : s[x] \in Whitespace}

\* two commas of s with only whitespace between them
AdjacentCommas(s) ==
    \E i, k \in Commas(s) : i < k /\ \A x \in (i+1)..(k-1) : s[x] \in Whitespace

ExtractSpan == SubSeq(call.text, FirstOpen(call.text), LastClose(call.text))

ExtractCommon ==
    ret # <<>> =>
        LET t == call.text
            r == ret[1]
        IN  /\ r.error # NoneVal <=> (t = <<>> \/ ~HasSpan(t))
            /\ r.error = NoneVal =>
                /\ r.value # <<>>
                /\ r.value[1] = "{" /\ r.value[Len(r.value)] = "}"
                /\ \A i \in DOMAIN r.value : r.value[i] \notin {"\r", "\n"}
                /\ Skeleton(r.value) = Skeleton(ExtractSpan)
                /\ Len(r.value) <= Len(ExtractSpan)
            /\ t = ExampleText => r.value = <<"{", "\"", "a", "\"", ":", "1", "}">>

\* every trailing comma of the span is removed, one pass: none is left unless the
\* span had two commas in a row
OnePassRule(span, value) ==
    /\ Cardinality(Commas(value)) = Cardinality(Commas(span)) - Cardinality(TrailingCommas(span))
    /\ ~AdjacentCommas(span) => TrailingCommas(value) = {}

\* C10 (as amended): extract_json_safely fails exactly when the input is empty or
\* has no "{" followed later by a "}"; otherwise it returns the span from the first
\* "{" to the last "}" with every CR and LF replaced by a space and every comma
\* that is followed only by whitespace and a closing } or ] removed in one pass,
\* so that no such comma is left unless the span had two commas separated only by
\* whitespace; the example text yields {"a":1}.
C10_ExtractOnePass ==
    /\ ExtractCommon
    /\ (ret # <<>> /\ ret[1].error = NoneVal) => OnePassRule(ExtractSpan, ret[1].value)

\* prose before the span, a line break inside it, a trailing comma removed
C10_Witness ==
    /\ ret # <<>> /\ ret[1].error = NoneVal
    /\ FirstOpen(call.text) > 1
    /\ TrailingCommas(ExtractSpan) # {}
    /\ \E i \in DOMAIN ExtractSpan : ExtractSpan[i] \in {"\r", "\n"}
    /\ TrailingCommas(ret[1].value) = {}

\* C10 as stated: no comma is left that is followed only by whitespace and a closer
C10_Original_NoTrailingCommaLeft ==
    /\ ExtractCommon
    /\ (ret # <<>> /\ ret[1].error = NoneVal) => TrailingCommas(ret[1].value) = {}

----------------------------------------------------------------------------
(* decide_ui (core.py) *)

YesThreshold   == 75
MaybeThreshold == 55

Decision(code, badge, label, reason, next_step) ==
    [code |-> code, badge |-> badge, label |-> label, reason |-> reason, next_step |-> next_step]

any_high_gap(gaps) == \E i \in DOMAIN gaps : gaps[i].impact = "high"

\* has_high_gap ignored: the decision looks at the must-have list alone
decide_ui_no_gaps(report) ==
    LET fit_score == report.fit_score
        missing_must == SelectSeq(report.must_have_match, LAMBDA m : m.status = "missing")
        has_missing_must == Len(missing_must) > 0
    IN  IF fit_score >= YesThreshold THEN
            IF has_missing_must
            THEN Decision("MAYBE", "maybe", "Worth applying only if highly motivated",
                          "Strong score, but there are gaps that could affect screening. Clarify them with concrete evidence or projects.",
                          "Apply only if you can clearly demonstrate or mitigate the highlighted gaps (examples, portfolio, interview framing).")
            ELSE Decision("YES", "yes", "Worth applying",
                          "Strong alignment with key requirements; remaining gaps are not blocking.",
                          "Apply and tailor your CV and LinkedIn profile to highlight your strengths.")
        ELSE IF fit_score >= MaybeThreshold THEN
            Decision("MAYBE", "maybe", "Worth applying only if highly motivated",
                     "Decent alignment, but concrete evidence is needed to pass initial screening.",
                     "Apply only if you can clearly demonstrate the missing skills with real examples or projects.")
        ELSE Decision("NO", "no", "Not worth applying (for now)",
                      IF has_missing_must
                      THEN "Some key requirements appear missing, with a high risk of early screening rejection."
                      ELSE "Fit currently low.",
                      "Focus on better-aligned roles or build targeted projects before applying.")

decide_ui(report) ==
    LET fit_score == report.fit_score
        must == report.must_have_match
        gaps == report.gaps
        missing_must == SelectSeq(must, LAMBDA m : m.status = "missing")
        has_missing_must == Len(missing_must) > 0
        has_high_gap == any_high_gap(gaps)
    IN  IF fit_score >= YesThreshold THEN
            IF has_missing_must \/ has_high_gap
            THEN Decision("MAYBE", "maybe", "Worth applying only if highly motivated",
                          "Strong score, but there are gaps that could affect screening. Clarify them with concrete evidence or projects.",
                          "Apply only if you can clearly demonstrate or mitigate the highlighted gaps (examples, portfolio, interview framing).")
            ELSE Decision("YES", "yes", "Worth applying",
                          "Strong alignment with key requirements; remaining gaps are not blocking.",
                          "Apply and tailor your CV and LinkedIn profile to highlight your strengths.")
        ELSE IF fit_score >= MaybeThreshold THEN
            Decision("MAYBE", "maybe", "Worth applying only if highly motivated",
                     "Decent alignment, but concrete evidence is needed to pass initial screening.",
                     "Apply only if you can clearly demonstrate the missing skills with real examples or projects.")
        ELSE Decision("NO", "no", "Not worth applying (for now)",
                      IF has_missing_must
                      THEN "Some key requirements appear missing, with a high risk of early screening rejection."
                      ELSE IF has_high_gap
                      THEN "There are high-impact gaps that likely block the role for now."
                      ELSE "Fit currently low.",
                      "Focus on better-aligned roles or build targeted projects before applying.")

----------------------------------------------------------------------------
(* Specification of decide_ui: every FitReport of the bounded shape, then the call *)

\* FitReport (core.py); fit_score is an int in 0..100 by the field's ge/le constraints
FitReport(fit_score, confidence, summary, must, nice, gaps, cv_s, li_s, ats, final_note) ==
    [ fit_score |-> fit_score, confidence |-> confidence, summary |-> summary,
      must_have_match |-> must, nice_to_have_match |-> nice, gaps |-> gaps,
      cv_suggestions |-> cv_s, linkedin_suggestions |-> li_s, ats_keywords |-> ats,
      final_note |-> final_note ]

DecideInit ==
    /\ JobInit
    /\ call \in { [report |-> FitReport(sc, "medium", <<>>, m, <<>>, g, <<>>, <<>>, <<>>, <<>>)] :
                     sc \in 0..100, m \in MatchListsUpTo(MaxGaps), g \in GapListsUpTo(MaxGaps) }
    /\ ret = <<>>

DecideCall ==
    /\ ret = <<>>
    /\ ret' = <<decide_ui(call.report)>>
    /\ UNCHANGED <<call, jobVars>>

DecideNext == DecideCall

DecideSpec == DecideInit /\ [][DecideNext]_vars

\* C8: decide_ui returns YES exactly when fit_score >= 75 and no must-have item is
\* missing and no gap has impact high; MAYBE exactly when fit_score >= 75 with a
\* missing must-have or a high gap, or when 55 <= fit_score < 75; NO exactly when
\* fit_score < 55.
C8_DecisionTable ==
    ret # <<>> =>
        LET r == call.report
            code == ret[1].code
            missingMust == \E i \in DOMAIN r.must_have_match : r.must_have_match[i].status = "missing"
            highGap == \E i \in DOMAIN r.gaps : r.gaps[i].impact = "high"
        IN  /\ code \in {"YES", "MAYBE", "NO"}
            /\ code = "YES" <=> (r.fit_score >= 75 /\ ~missingMust /\ ~highGap)
            /\ code = "MAYBE" <=> \/ (r.fit_score >= 75 /\ (missingMust \/ highGap))
                                  \/ (55 <= r.fit_score /\ r.fit_score < 75)
            /\ code = "NO" <=> r.fit_score < 55

\* a score at the threshold held back to MAYBE by a high gap alone
C8_Witness ==
    /\ ret # <<>>
    /\ call.report.fit_score = 75
    /\ \A i \in DOMAIN call.report.must_have_match : call.report.must_have_match[i].status # "missing"
    /\ \E i \in DOMAIN call.report.gaps : call.report.gaps[i].impact = "high"
    /\ ret[1].code = "MAYBE"

----------------------------------------------------------------------------
(* Stage models and their validation (web_helpers.py) *)

Confidences == {"low", "medium", "high"}

\* MatchItem validation inside a list: every status must be one of the Literal's values
valid_match_list(items) == \A i \in DOMAIN items : items[i].status \in Statuses
valid_gap_list(items)   == \A i \in DOMAIN items : items[i].impact \in Impacts

\* FitCore.model_validate(data): <<FitCore>>, or <<>> for a ValidationError.
\* data.fit_score and data.confidence are absent (<<>>) or <<value>>.
FitCore_validate(data) ==
    IF \/ data.confidence = <<>>
       \/ (data.confidence # <<>> /\ data.confidence[1] \notin Confidences)
       \/ (data.fit_score # <<>> /\ data.fit_score[1] \notin 0..100)
       \/ ~valid_match_list(data.must_have_match)
       \/ ~valid_match_list(data.nice_to_have_match)
       \/ ~valid_gap_list(data.gaps)
    THEN <<>>
    ELSE << [ fit_score          |-> IF data.fit_score = <<>> THEN 0 ELSE data.fit_score[1],
              confidence         |-> data.confidence[1],
              must_have_match    |-> data.must_have_match,
              nice_to_have_match |-> data.nice_to_have_match,
              gaps               |-> data.gaps ] >>

\* FitSuggestions(): every field at its default
FitSuggestions_defaults ==
    [ summary |-> <<>>, cv_suggestions |-> <<>>, linkedin_suggestions |-> <<>>,
      ats_keywords |-> <<>>, final_note |-> <<>> ]

\* FitSuggestions.model_validate(data): each cv suggestion goes through SuggestionItem
FitSuggestions_validate(data) ==
    IF \E i \in DOMAIN data.cv_suggestions : SuggestionItem(data.cv_suggestions[i]) = <<>>
    THEN <<>>
    ELSE << [ summary              |-> data.summary,
              cv_suggestions       |-> [i \in DOMAIN data.cv_suggestions |->
                                           SuggestionItem(data.cv_suggestions[i])[1]],
              linkedin_suggestions |-> data.linkedin_suggestions,
              ats_keywords         |-> data.ats_keywords,
              final_note           |-> data.final_note ] >>

----------------------------------------------------------------------------
(* What the LLM client can answer.  A response either raises, or carries the  *)
(* text the model wrote and, as json.loads would return it for the extracted  *)
(* candidate, the parsed value (<<>> when json.loads raises).                 *)

Raises(msg)     == [raises |-> <<msg>>, text |-> <<>>, parsed |-> <<>>]
Answer(text, p) == [raises |-> <<>>, text |-> text, parsed |-> p]

T_prose   == <<"n", "o">>
T_broken  == <<"{", ",", ",", "}">>
T_object  == <<"a", "{", "\n", "}", "a">>

\* str(e) of a client failure: a message, or nothing at all
TransportMessages == {"TransportError", ""}

FailingResponses ==
    { Raises(m) : m \in TransportMessages } \cup
    { Answer(<<>>, <<>>), Answer(T_prose, <<>>), Answer(T_broken, <<>>) }

Item(st) == [requirement |-> 1, status |-> st]

CoreData ==
    { [ fit_score |-> fs, confidence |-> cf, must_have_match |-> m,
        nice_to_have_match |-> n, gaps |-> g ] :
        fs \in {<<>>, <<90>>}, cf \in {<<"high">>},
        m \in { <<Item("match")>>, <<Item("partial"), [requirement |-> 2, status |-> "missing"]>> },
        n \in { <<Item("partial")>> },
        g \in { <<[gap |-> 1, impact |-> "high"]>> } }
    \cup
    { [ fit_score |-> <<150>>, confidence |-> <<"high">>, must_have_match |-> <<>>,
        nice_to_have_match |-> <<>>, gaps |-> <<>> ],
      [ fit_score |-> <<>>, confidence |-> <<>>, must_have_match |-> <<Item("match")>>,
        nice_to_have_match |-> <<>>, gaps |-> <<>> ],
      [ fit_score |-> <<10>>, confidence |-> <<"low">>, must_have_match |-> <<Item("maybe")>>,
        nice_to_have_match |-> <<>>, gaps |-> <<>> ] }

CoreResponses == FailingResponses \cup { Answer(T_object, <<d>>) : d \in CoreData }

RawSuggestion(sec, prio) ==
    [section |-> <<Str(sec)>>, change |-> "c", reason |-> "r", priority |-> prio]

SuggestionsData ==
    { [ summary |-> <<"s">>, cv_suggestions |-> <<RawSuggestion(capitalize(W_certifications), <<>>)>>,
        linkedin_suggestions |-> <<"l">>, ats_keywords |-> <<"k">>, final_note |-> <<"f">> ],
      [ summary |-> <<"s">>, cv_suggestions |-> <<RawSuggestion(W_skills, <<"urgent">>)>>,
        linkedin_suggestions |-> <<>>, ats_keywords |-> <<>>, final_note |-> <<>> ] }

SuggestionsResponses == FailingResponses \cup { Answer(T_object, <<d>>) : d \in SuggestionsData }

----------------------------------------------------------------------------------------------------------------------------------------
(* analyze_fit_core / analyze_fit_suggestions (web_helpers.py).  The two      *)
(* functions are the same sequence around one LLM call; analyze is that       *)
(* sequence.  The debug artifacts under jobs/<id>/llm are not kept in the     *)
(* model, but each write_text of one can raise: wfail is the number of the    *)
(* write_text call that raises OSError (0: none does), the calls numbered in  *)
(* the order the function makes them.  The result is [value, exc, prompts]:   *)
(* value is <<model>> on return, exc is <<message>> when the function raises, *)
(* prompts the user prompts sent to the client.                               *)

Raised(msg, prompts) == [value |-> <<>>, exc |-> <<msg>>, prompts |-> prompts]
Returned(v, prompts) == [value |-> <<v>>, exc |-> <<>>, prompts |-> prompts]

\* validated is the outcome of model_validate on the parsed value: <<model>> or <<>>
analyze(user_prompt, llm, wfail, validated) ==
    LET json_text == extract_json_safely(llm.text)
    IN  IF wfail \in {1, 2} THEN Raised("OSError", <<>>)              \* system.txt, user_prompt.txt
        ELSE IF llm.raises # <<>> THEN Raised(llm.raises[1], <<user_prompt>>)
        ELSE IF wfail = 3 THEN Raised("OSError", <<user_prompt>>)     \* raw.txt
        ELSE IF json_text.error # NoneVal THEN Raised(json_text.error, <<user_prompt>>)
        ELSE IF wfail = 4 THEN Raised("OSError", <<user_prompt>>)     \* json_extracted.txt
        ELSE IF llm.parsed = <<>>                                      \* json.loads raises
             THEN IF wfail = 5 THEN Raised("OSError", <<user_prompt>>)  \* parse_error.txt
                  ELSE Raised("JSONDecodeError", <<user_prompt>>)
        ELSE IF validated = <<>>
             THEN IF wfail = 5 THEN Raised("OSError", <<user_prompt>>)  \* validation_error.txt
                  ELSE Raised("ValidationError", <<user_prompt>>)
        ELSE Returned(validated[1], <<user_prompt>>)

WriteFailures == 0..5

analyze_fit_core(llm, wfail) ==
    analyze([template |-> "hr_fit_core_user.md", fit_core_json |-> <<>>],
            llm, wfail, IF llm.parsed = <<>> THEN <<>> ELSE FitCore_validate(llm.parsed[1]))

\* the stage-2 prompt carries json_pretty(fit_core.model_dump()): every field of FitCore
analyze_fit_suggestions(fit_core, llm, wfail) ==
    analyze([template |-> "hr_fit_suggestions_user.md", fit_core_json |-> <<fit_core>>],
            llm, wfail, IF llm.parsed = <<>> THEN <<>> ELSE FitSuggestions_validate(llm.parsed[1]))

----------------------------------------------------------------------------
(* webapp.py: the status map *)

NoExtra == [k \in {} |-> k]

\* the assignment replacing the whole map by the one new entry
set_status_drops_others(job_id, status, error, extra) ==
    [k \in {job_id} |-> [status |-> status, error |-> error] @@ extra]

\* set_status(job_id, status, error, **extra): the map after the assignment
set_status(job_id, status, error, extra) ==
    [k \in DOMAIN JOB_STATUS \cup {job_id} |->
        IF k = job_id THEN [status |-> status, error |-> error] @@ extra ELSE JOB_STATUS[k]]

\* new_job_id(): a uuid4, never handed out before; the model takes the least unused id
new_job_id == CHOOSE j \in JobIds \ DOMAIN JOB_STATUS : \A k \in JobIds \ DOMAIN JOB_STATUS : j <= k

AddFiles(j, fs) == files' = [files EXCEPT ![j] = @ \cup fs]

----------------------------------------------------------------------------
(* upload(): one action per statement group between two writes of the map *)

\* an error branch that records ERROR and falls through instead of returning
UploadReturnError_no_return(j, msg, fallthrough) ==
    /\ JOB_STATUS' = set_status(j, "ERROR", msg, NoExtra)
    /\ upc' = [upc EXCEPT ![j] = fallthrough]

\* set_status(job_id, "ERROR", msg); return RedirectResponse(...)
UploadReturnError(j, msg, fallthrough) ==
    /\ JOB_STATUS' = set_status(j, "ERROR", msg, NoExtra)
    /\ upc' = [upc EXCEPT ![j] = "returned"]

\* an exception leaves upload(): the request fails, the map is left as it is
UploadRaises(j) ==
    /\ upc' = [upc EXCEPT ![j] = "raised"]
    /\ UNCHANGED JOB_STATUS

UploadStart ==
    /\ DOMAIN JOB_STATUS # JobIds
    /\ LET j == new_job_id
       IN  /\ JOB_STATUS' = set_status(j, "UPLOADED", NoneVal, NoExtra)
           /\ upc' = [upc EXCEPT ![j] = "cv"]
    /\ resp' = <<>>
    /\ UNCHANGED <<wpc, loc, files, call, ret>>

UploadReadCv(j) ==
    /\ upc[j] = "cv"
    /\ \/ /\ UploadReturnError(j, "File CV vuoto o non leggibile.", "url")
          /\ UNCHANGED files
       \/ /\ UploadRaises(j)              \* pdf_bytes_to_text or save_text_input raises
          /\ UNCHANGED files
       \/ /\ upc' = [upc EXCEPT ![j] = "url"]
          /\ AddFiles(j, {<<"cv.txt">>})
          /\ UNCHANGED JOB_STATUS
    /\ resp' = <<>>
    /\ UNCHANGED <<wpc, loc, call, ret>>

UploadCheckUrl(j) ==
    /\ upc[j] = "url"
    /\ \/ UploadReturnError(j, "URL della posizione LinkedIn mancante.", "fetch")
       \/ /\ upc' = [upc EXCEPT ![j] = "fetch"]
          /\ UNCHANGED JOB_STATUS
    /\ resp' = <<>>
    /\ UNCHANGED <<wpc, loc, files, call, ret>>

UploadFetch(j) ==
    /\ upc[j] = "fetch"
    /\ \/ /\ UploadReturnError(j, "Errore nel recupero della pagina LinkedIn (fetch).", "authwall")
          /\ AddFiles(j, {<<"fetch_error.txt">>})
       \/ /\ UploadRaises(j)              \* saving fetch_error.txt or the raw html raises
          /\ UNCHANGED files
       \/ /\ upc' = [upc EXCEPT ![j] = "authwall"]
          /\ AddFiles(j, {<<"linkedin_job_raw.html">>})
          /\ UNCHANGED JOB_STATUS
    /\ resp' = <<>>
    /\ UNCHANGED <<wpc, loc, call, ret>>

UploadAuthwall(j) ==
    /\ upc[j] = "authwall"
    /\ \/ UploadReturnError(j, "LinkedIn ha restituito una pagina di login/authwall.", "parse")
       \/ /\ upc' = [upc EXCEPT ![j] = "parse"]
          /\ UNCHANGED JOB_STATUS
    /\ resp' = <<>>
    /\ UNCHANGED <<wpc, loc, files, call, ret>>

\* title and text extraction, then background_tasks.add_task(run_job, ...)
UploadSchedule(j) ==
    /\ upc[j] = "parse"
    /\ \/ /\ UploadRaises(j)
          /\ UNCHANGED wpc
       \/ /\ upc' = [upc EXCEPT ![j] = "returned"]
          /\ wpc' = [wpc EXCEPT ![j] = "queued"]
          /\ UNCHANGED JOB_STATUS
    /\ resp' = <<>>
    /\ UNCHANGED <<loc, files, call, ret>>

----------------------------------------------------------------------------
(* run_job() and process_job(): one action per step of the pipeline *)

RunJobStart(j) ==
    /\ wpc[j] = "queued"
    /\ JOB_STATUS' = set_status(j, "RUNNING", NoneVal, NoExtra)
    /\ loc' = [loc EXCEPT ![j].status_writes = Append(@, "RUNNING")]
    /\ wpc' = [wpc EXCEPT ![j] = "setup"]
    /\ resp' = <<>>
    /\ UNCHANGED <<upc, files, call, ret>>

\* an exception raised inside process_job reaches the except clause of run_job
Raise(j, msg, step) ==
    /\ loc' = [loc EXCEPT ![j].exc = <<msg>>, ![j].failed_at = step]
    /\ wpc' = [wpc EXCEPT ![j] = "except"]

SetupFailures == {"Missing OPENAI_API_KEY in environment (.env).", "OSError"}

\* build_client(), the llm debug folder, normalize_spaced_text
ProcessJobSetup(j) ==
    /\ wpc[j] = "setup"
    /\ \/ \E msg \in SetupFailures : Raise(j, msg, "setup")
       \/ /\ wpc' = [wpc EXCEPT ![j] = "stage1"]
          /\ UNCHANGED loc
    /\ resp' = <<>>
    /\ UNCHANGED <<JOB_STATUS, upc, files, call, ret>>

\* stage 1 made tolerant: a failure is replaced by an empty FitCore and the job goes on
AnalyzeFitCore_tolerant(j) ==
    /\ wpc[j] = "stage1"
    /\ \E llm \in CoreResponses, wfail \in WriteFailures :
         LET r == analyze_fit_core(llm, wfail)
         IN  IF r.exc # <<>>
             THEN /\ loc' = [loc EXCEPT ![j].llm_calls = @ \o r.prompts,
                                        ![j].exc = r.exc, ![j].failed_at = "stage1",
                                        ![j].fit_core = <<[fit_score |-> 0, confidence |-> "low",
                                                           must_have_match |-> <<>>,
                                                           nice_to_have_match |-> <<>>, gaps |-> <<>>]>>]
                  /\ wpc' = [wpc EXCEPT ![j] = "score"]
             ELSE /\ loc' = [loc EXCEPT ![j].llm_calls = @ \o r.prompts, ![j].fit_core = r.value]
                  /\ wpc' = [wpc EXCEPT ![j] = "score"]
    /\ resp' = <<>>
    /\ UNCHANGED <<JOB_STATUS, upc, files, call, ret>>

\* fit_core = analyze_fit_core(...): any exception propagates
AnalyzeFitCore(j) ==
    /\ wpc[j] = "stage1"
    /\ \E llm \in CoreResponses, wfail \in WriteFailures :
         LET r == analyze_fit_core(llm, wfail)
         IN  IF r.exc # <<>>
             THEN /\ loc' = [loc EXCEPT ![j].llm_calls = @ \o r.prompts,
                                        ![j].exc = r.exc, ![j].failed_at = "stage1"]
                  /\ wpc' = [wpc EXCEPT ![j] = "except"]
             ELSE /\ loc' = [loc EXCEPT ![j].llm_calls = @ \o r.prompts, ![j].fit_core = r.value]
                  /\ wpc' = [wpc EXCEPT ![j] = "score"]
    /\ resp' = <<>>
    /\ UNCHANGED <<JOB_STATUS, upc, files, call, ret>>

\* computed_score = compute_fit_score(fit_core.must_have_match, fit_core.nice_to_have_match)
ComputeScore(j) ==
    /\ wpc[j] = "score"
    /\ loc' = [loc EXCEPT ![j].computed_score =
                  <<compute_fit_score(loc[j].fit_core[1].must_have_match,
                                      loc[j].fit_core[1].nice_to_have_match)>>]
    /\ wpc' = [wpc EXCEPT ![j] = "stage2"]
    /\ resp' = <<>>
    /\ UNCHANGED <<JOB_STATUS, upc, files, call, ret>>

\* try: suggestions = analyze_fit_suggestions(...)
\* except Exception as e: write_text(fit_suggestions_error.txt, str(e)); suggestions = FitSuggestions()
\* hfail: the write_text of the except clause raises
AnalyzeFitSuggestions(j) ==
    /\ wpc[j] = "stage2"
    /\ \E llm \in SuggestionsResponses, wfail \in WriteFailures, hfail \in BOOLEAN :
         LET r == analyze_fit_suggestions(loc[j].fit_core[1], llm, wfail)
         IN  IF r.exc = <<>>
             THEN /\ loc' = [loc EXCEPT ![j].llm_calls = @ \o r.prompts, ![j].suggestions = r.value]
                  /\ wpc' = [wpc EXCEPT ![j] = "merge"]
             ELSE IF hfail
             THEN /\ loc' = [loc EXCEPT ![j].llm_calls = @ \o r.prompts, ![j].sugg_failed = TRUE,
                                        ![j].exc = <<"OSError">>, ![j].failed_at = "stage2"]
                  /\ wpc' = [wpc EXCEPT ![j] = "except"]
             ELSE /\ loc' = [loc EXCEPT ![j].llm_calls = @ \o r.prompts, ![j].sugg_failed = TRUE,
                                        ![j].suggestions = <<FitSuggestions_defaults>>]
                  /\ wpc' = [wpc EXCEPT ![j] = "merge"]
    /\ resp' = <<>>
    /\ UNCHANGED <<JOB_STATUS, upc, files, call, ret>>

\* the merge with the score stage 1 stated instead of the computed one
merge_report_llm_score(fit_core, computed_score, suggestions) ==
    FitReport(fit_core.fit_score, fit_core.confidence, suggestions.summary,
              fit_core.must_have_match, fit_core.nice_to_have_match, fit_core.gaps,
              suggestions.cv_suggestions, suggestions.linkedin_suggestions,
              suggestions.ats_keywords, suggestions.final_note)

\* final_report = FitReport(fit_score=computed_score, confidence=fit_core.confidence, ...)
merge_report(fit_core, computed_score, suggestions) ==
    FitReport(computed_score, fit_core.confidence, suggestions.summary,
              fit_core.must_have_match, fit_core.nice_to_have_match, fit_core.gaps,
              suggestions.cv_suggestions, suggestions.linkedin_suggestions,
              suggestions.ats_keywords, suggestions.final_note)

\* s[:n]
Take(s, n) == SubSeq(s, 1, Min(n, Len(s)))

\* strengths: the requirements matched, then those partially matched, must-have
\* before nice-to-have within each, the first three
strengths(report) ==
    LET all == report.must_have_match \o report.nice_to_have_match
        matched == SelectSeq(all, LAMBDA m : m.status = "match")
        partial == SelectSeq(all, LAMBDA m : m.status = "partial")
        both == matched \o partial
    IN  Take([i \in DOMAIN both |-> both[i].requirement], 3)

\* key=lambda g: {"high": 0, "medium": 1, "low": 2}.get(g.impact, 3)
impact_key(g) ==
    CASE g.impact = "high" -> 0
      [] g.impact = "medium" -> 1
      [] g.impact = "low" -> 2
      [] OTHER -> 3

\* one step of a stable sort: g goes behind every item whose key is not larger
RECURSIVE insert_by_impact(_, _)
insert_by_impact(sorted, g) ==
    IF sorted = <<>> THEN <<g>>
    ELSE IF impact_key(sorted[Len(sorted)]) <= impact_key(g)
         THEN Append(sorted, g)
         ELSE Append(insert_by_impact(SubSeq(sorted, 1, Len(sorted) - 1), g), sorted[Len(sorted)])

\* sorted(report.gaps or [], key=...): Python's sort is stable
RECURSIVE gaps_sorted(_)
gaps_sorted(gaps) ==
    IF gaps = <<>> THEN <<>>
    ELSE insert_by_impact(gaps_sorted(SubSeq(gaps, 1, Len(gaps) - 1)), gaps[Len(gaps)])

\* the blockers taken from the gaps in the order the report lists them
blockers_unsorted(report) ==
    LET kept == SelectSeq(report.gaps, LAMBDA g : g.impact \in {"high", "medium"})
        from_gaps == Take([i \in DOMAIN kept |-> kept[i].gap], 3)
        missing == SelectSeq(report.must_have_match, LAMBDA m : m.status = "missing")
        missing_must == Take([i \in DOMAIN missing |-> missing[i].requirement], 3)
    IN  IF from_gaps = <<>> THEN missing_must ELSE from_gaps

\* blockers = [g.gap for g in gaps_sorted if g.impact in ("high", "medium")][:3]
\* if not blockers: blockers = [m.requirement for m in must if m.status == "missing"][:3]
blockers(report) ==
    LET kept == SelectSeq(gaps_sorted(report.gaps), LAMBDA g : g.impact \in {"high", "medium"})
        from_gaps == Take([i \in DOMAIN kept |-> kept[i].gap], 3)
        missing == SelectSeq(report.must_have_match, LAMBDA m : m.status = "missing")
        missing_must == Take([i \in DOMAIN missing |-> missing[i].requirement], 3)
    IN  IF from_gaps = <<>> THEN missing_must ELSE from_gaps

\* what render_report_html puts into the page: the decision, the score, the
\* confidence and the two lists of cards
render_report_html(report) ==
    [ decision_code |-> decide_ui(report).code,
      decision_reason |-> decide_ui(report).reason,
      fit_score |-> Max(0, Min(100, report.fit_score)),
      confidence |-> report.confidence,
      strengths |-> strengths(report),
      blockers |-> blockers(report) ]

JsonPath(j) == <<"outputs", j, "fit_report.json">>
HtmlPath(j) == <<"outputs", j, "report.html">>

\* the steps of the output part that can raise: writing fit_report.json,
\* rendering (it reads the template file), writing report.html; 0: none raises
PersistFailures == 0..3

\* merge, write fit_report.json, render, write report.html, return the two paths
MergeAndPersist(j) ==
    /\ wpc[j] = "merge"
    /\ \E pfail \in PersistFailures :
         LET report == merge_report(loc[j].fit_core[1], loc[j].computed_score[1], loc[j].suggestions[1])
         IN  IF pfail = 1
             THEN /\ loc' = [loc EXCEPT ![j].final_report = <<report>>,
                                        ![j].exc = <<"OSError">>, ![j].failed_at = "persist"]
                  /\ wpc' = [wpc EXCEPT ![j] = "except"]
                  /\ UNCHANGED files
             ELSE IF pfail \in {2, 3}
             THEN /\ loc' = [loc EXCEPT ![j].final_report = <<report>>, ![j].json_report = <<report>>,
                                        ![j].exc = <<"OSError">>, ![j].failed_at = "persist"]
                  /\ wpc' = [wpc EXCEPT ![j] = "except"]
                  /\ AddFiles(j, {JsonPath(j)})
             ELSE /\ loc' = [loc EXCEPT ![j].final_report = <<report>>, ![j].json_report = <<report>>,
                                        ![j].html_report = <<render_report_html(report)>>,
                                        ![j].paths = <<[json_path |-> JsonPath(j), html_path |-> HtmlPath(j)]>>]
                  /\ wpc' = [wpc EXCEPT ![j] = "set_done"]
                  /\ AddFiles(j, {JsonPath(j), HtmlPath(j)})
    /\ resp' = <<>>
    /\ UNCHANGED <<JOB_STATUS, upc, call, ret>>

\* DONE recorded without the paths process_job returned
RunJobDone_no_paths(j) ==
    /\ wpc[j] = "set_done"
    /\ JOB_STATUS' = set_status(j, "DONE", NoneVal, NoExtra)
    /\ loc' = [loc EXCEPT ![j].status_writes = Append(@, "DONE")]
    /\ wpc' = [wpc EXCEPT ![j] = "finished"]
    /\ resp' = <<>>
    /\ UNCHANGED <<upc, files, call, ret>>

\* set_status(job_id, "DONE", None, **paths)
RunJobDone(j) ==
    /\ wpc[j] = "set_done"
    /\ JOB_STATUS' = set_status(j, "DONE", NoneVal, loc[j].paths[1])
    /\ loc' = [loc EXCEPT ![j].status_writes = Append(@, "DONE")]
    /\ wpc' = [wpc EXCEPT ![j] = "finished"]
    /\ resp' = <<>>
    /\ UNCHANGED <<upc, files, call, ret>>

\* the except clause without its inner try: a failing save of error.txt leaves run_job
RunJobExcept_save_escapes(j) ==
    /\ wpc[j] = "except"
    /\ \E saved \in BOOLEAN :
         IF saved
         THEN /\ AddFiles(j, {<<"jobs", "error.txt">>})
              /\ JOB_STATUS' = set_status(j, "ERROR", loc[j].exc[1], NoExtra)
              /\ loc' = [loc EXCEPT ![j].status_writes = Append(@, "ERROR")]
              /\ wpc' = [wpc EXCEPT ![j] = "finished"]
         ELSE /\ UNCHANGED <<files, JOB_STATUS, loc>>
              /\ wpc' = [wpc EXCEPT ![j] = "crashed"]
    /\ resp' = <<>>
    /\ UNCHANGED <<upc, call, ret>>

\* except Exception as e: try to save error.txt (a failure there is dropped),
\* then set_status(job_id, "ERROR", str(e))
RunJobExcept(j) ==
    /\ wpc[j] = "except"
    /\ \E saved \in BOOLEAN :
         /\ IF saved THEN AddFiles(j, {<<"jobs", "error.txt">>}) ELSE UNCHANGED files
         /\ JOB_STATUS' = set_status(j, "ERROR", loc[j].exc[1], NoExtra)
         /\ loc' = [loc EXCEPT ![j].status_writes = Append(@, "ERROR")]
         /\ wpc' = [wpc EXCEPT ![j] = "finished"]
    /\ resp' = <<>>
    /\ UNCHANGED <<upc, call, ret>>

----------------------------------------------------------------------------
(* GET /api/status/{job_id} *)

\* data = JOB_STATUS.get(job_id): an id not handed out yet is an unknown id
api_status(job_id) ==
    IF job_id \notin DOMAIN JOB_STATUS
    THEN [code |-> 404, body |-> [status |-> "NOT_FOUND", error |-> NoneVal]]
    ELSE [code |-> 200, body |-> JOB_STATUS[job_id]]

ApiStatus(job_id) ==
    /\ resp' = <<api_status(job_id)>>
    /\ UNCHANGED <<JOB_STATUS, upc, wpc, loc, files, call, ret>>

----------------------------------------------------------------------------
(* The job machine *)

Init ==
    /\ JobInit
    /\ call = <<>>
    /\ ret = <<>>

Upload(j) ==
    \/ UploadReadCv(j)
    \/ UploadCheckUrl(j)
    \/ UploadFetch(j)
    \/ UploadAuthwall(j)
    \/ UploadSchedule(j)

Worker(j) ==
    \/ RunJobStart(j)
    \/ ProcessJobSetup(j)
    \/ AnalyzeFitCore(j)
    \/ ComputeScore(j)
    \/ AnalyzeFitSuggestions(j)
    \/ MergeAndPersist(j)
    \/ RunJobDone(j)
    \/ RunJobExcept(j)

\* resp is the response of the step just taken when that step was a status
\* read, and <<>> after any other step
Next ==
    \/ UploadStart
    \/ \E j \in JobIds : Upload(j)
    \/ \E j \in JobIds : Worker(j)
    \/ \E id \in JobIds : ApiStatus(id)

Spec == Init /\ [][Next]_vars

\* a background task, once queued, is run to its end by the server's thread pool
FairSpec == Spec /\ \A j \in JobIds : WF_vars(Worker(j))

\* and a request, once accepted, is handled until upload() returns or raises
FairUploadSpec == FairSpec /\ \A j \in JobIds : WF_vars(Upload(j))

----------------------------------------------------------------------------
(* Specification of render_report_html: every FitReport of the bounded shape, *)
(* then the call                                                              *)

RenderInit ==
    /\ JobInit
    /\ call \in { [report |-> FitReport(60, "medium", <<>>, m, <<>>, g, <<>>, <<>>, <<>>, <<>>)] :
                     m \in MatchListsUpTo(MaxRenderMust), g \in GapListsUpTo(MaxRenderGaps) }
    /\ ret = <<>>

RenderCall ==
    /\ ret = <<>>
    /\ ret' = <<render_report_html(call.report)>>
    /\ UNCHANGED <<call, jobVars>>

RenderNext == RenderCall

RenderSpec == RenderInit /\ [][RenderNext]_vars

GapNames(gaps, impact) ==
    LET sel == SelectSeq(gaps, LAMBDA g : g.impact = impact)
    IN  [i \in DOMAIN sel |-> sel[i].gap]

MissingMustNames(report) ==
    LET sel == SelectSeq(report.must_have_match, LAMBDA m : m.status = "missing")
    IN  [i \in DOMAIN sel |-> sel[i].requirement]

\* C12 (as amended): the top blockers shown are the gaps of impact high, then those
\* of impact medium, each group in the report's order, capped at three; gaps of
\* impact low are never shown, and the names of the missing must-have
\* requirements (capped at three) are shown instead whenever the report has no
\* gap of impact high or medium.
C12_BlockersHighThenMedium ==
    ret # <<>> =>
        LET r == call.report
            shown == GapNames(r.gaps, "high") \o GapNames(r.gaps, "medium")
        IN  /\ Len(ret[1].blockers) <= 3
            /\ ret[1].blockers = IF shown # <<>> THEN Take(shown, 3)
                                 ELSE Take(MissingMustNames(r), 3)

\* five gaps, a low one first and a medium one ahead of the high ones: the cards
\* are the two high gaps and the first medium one
C12_Witness ==
    /\ ret # <<>>
    /\ Len(call.report.gaps) = 5
    /\ call.report.gaps[1].impact = "low"
    /\ call.report.gaps[2].impact = "medium"
    /\ call.report.gaps[3].impact = "high"
    /\ call.report.gaps[4].impact = "medium"
    /\ call.report.gaps[5].impact = "high"
    /\ ret[1].blockers = <<3, 5, 2>>

\* C12 as stated: the blockers are the gaps sorted high, medium, low and capped at
\* three, and the missing must-haves are shown only when there is no gap at all
C12_Original_LowGapsShown ==
    ret # <<>> =>
        LET r == call.report
            shown == GapNames(r.gaps, "high") \o GapNames(r.gaps, "medium") \o GapNames(r.gaps, "low")
        IN  ret[1].blockers = IF r.gaps # <<>> THEN Take(shown, 3)
                              ELSE Take(MissingMustNames(r), 3)

----------------------------------------------------------------------------
(* Claims about the job machine *)

Terminal == {"DONE", "ERROR"}

StatusOf(j) == IF j \in DOMAIN JOB_STATUS THEN JOB_STATUS[j].status ELSE "NOT_FOUND"

\* the messages upload() records with ERROR
UploadErrors ==
    { "File CV vuoto o non leggibile.", "URL della posizione LinkedIn mancante.",
      "Errore nel recupero della pagina LinkedIn (fetch).",
      "LinkedIn ha restituito una pagina di login/authwall." }

TerminalStays ==
    \A j \in DOMAIN JOB_STATUS :
        JOB_STATUS[j].status \in Terminal =>
            /\ j \in DOMAIN JOB_STATUS'
            /\ JOB_STATUS'[j].status = JOB_STATUS[j].status

NoWorkerAfterUploadError ==
    \A j \in DOMAIN JOB_STATUS :
        (JOB_STATUS[j].status = "ERROR" /\ JOB_STATUS[j].error \in UploadErrors) => wpc[j] = "none"

\* C1: once a job's recorded status is DONE or ERROR, no later step of any upload,
\* worker or status read changes that job's status; and a job that upload() marks
\* ERROR never gets a background worker scheduled.
C1_TerminalAbsorbing == [][TerminalStays]_vars /\ []NoWorkerAfterUploadError

\* one job ended by its worker and another refused by upload(), with a later
\* status read of the refused one
C1_Witness ==
    \E j, k \in DOMAIN JOB_STATUS :
        /\ JOB_STATUS[j].status = "DONE" /\ wpc[j] = "finished"
        /\ JOB_STATUS[k].status = "ERROR" /\ JOB_STATUS[k].error \in UploadErrors
        /\ upc[k] = "returned"
        /\ resp = <<[code |-> 200, body |-> JOB_STATUS[k]]>>

Started(j) == wpc[j] \notin {"none", "queued"}

\* C2: once run_job has started for a job, under fair scheduling of the worker and
\* with every external call returning or raising, the job's status eventually is
\* DONE or ERROR.
C2_WorkerTerminates ==
    \A j \in JobIds : Started(j) ~> (StatusOf(j) \in Terminal)

\* a worker whose last step (writing the report) raised, ended in ERROR
C2_Witness ==
    \E j \in DOMAIN JOB_STATUS :
        /\ wpc[j] = "finished" /\ loc[j].failed_at = "persist"
        /\ JOB_STATUS[j].status = "ERROR"

\* str(e) of what analyze_fit_core can raise
Stage1Messages ==
    { "OSError", "Empty LLM output", "No JSON object found in LLM output",
      "JSONDecodeError", "ValidationError" } \cup TransportMessages

\* C3: if a step of stage 1 fails, the job ends in ERROR with the failure's message
\* in error, and nothing downstream of stage 1 runs: no score is computed, no
\* stage-2 prompt is sent, no fit_report.json and no report.html is written.
C3_Stage1Fatal ==
    \A j \in JobIds :
        loc[j].failed_at = "stage1" =>
            /\ loc[j].exc # <<>> /\ loc[j].exc[1] \in Stage1Messages
            /\ wpc[j] \in {"except", "finished"}
            /\ loc[j].fit_core = <<>> /\ loc[j].computed_score = <<>>
            /\ loc[j].suggestions = <<>> /\ loc[j].final_report = <<>>
            /\ \A i \in DOMAIN loc[j].llm_calls : loc[j].llm_calls[i].template = "hr_fit_core_user.md"
            /\ Len(loc[j].llm_calls) <= 1
            /\ loc[j].json_report = <<>> /\ loc[j].html_report = <<>>
            /\ JsonPath(j) \notin files[j] /\ HtmlPath(j) \notin files[j]
            /\ JOB_STATUS[j].status \in {"RUNNING", "ERROR"}
            /\ wpc[j] = "finished" => JOB_STATUS[j] = [status |-> "ERROR", error |-> loc[j].exc[1]]

\* a job ended in ERROR by a FitCore validation failure, after its prompt was sent
C3_Witness ==
    \E j \in DOMAIN JOB_STATUS :
        /\ loc[j].failed_at = "stage1" /\ wpc[j] = "finished"
        /\ Len(loc[j].llm_calls) = 1
        /\ JOB_STATUS[j] = [status |-> "ERROR", error |-> "ValidationError"]

\* the report is stage 1's assessment with every suggestion field at its default
DefaultedReport(report, core) ==
    /\ report.confidence = core.confidence
    /\ report.must_have_match = core.must_have_match
    /\ report.nice_to_have_match = core.nice_to_have_match
    /\ report.gaps = core.gaps
    /\ report.summary = <<>> /\ report.final_note = <<>>
    /\ report.cv_suggestions = <<>> /\ report.linkedin_suggestions = <<>>
    /\ report.ats_keywords = <<>>

\* C4: if stage 1 succeeded and a step of stage 2 fails, the pipeline still delivers
\* a report whose confidence, match lists and gaps are stage 1's and whose
\* suggestion fields are empty, and the job's final status is DONE, not ERROR.
\* Stated here for the runs in which writing the report itself does not fail.
C4_Stage2FailureStillDone ==
    \A j \in JobIds :
        ( /\ loc[j].fit_core # <<>> /\ loc[j].sugg_failed
          /\ wpc[j] = "finished" /\ loc[j].failed_at # "persist" ) =>
            /\ JOB_STATUS[j].status = "DONE"
            /\ loc[j].json_report # <<>>
            /\ DefaultedReport(loc[j].json_report[1], loc[j].fit_core[1])

\* C5: for every job that produces a report, the report's fit_score is
\* compute_fit_score of the validated stage-1 match lists, whatever fit_score the
\* stage-1 response stated and whether or not stage 2 fell back to defaults.
C5_ReportScoreComputed ==
    \A j \in JobIds :
        loc[j].json_report # <<>> =>
            /\ loc[j].fit_core # <<>>
            /\ loc[j].json_report[1].fit_score =
                   compute_fit_score(loc[j].fit_core[1].must_have_match,
                                     loc[j].fit_core[1].nice_to_have_match)
            /\ loc[j].html_report # <<>> =>
                   loc[j].html_report[1].fit_score = loc[j].json_report[1].fit_score

\* a finished job whose stage-1 response stated 90, whose stage 2 fell back to
\* defaults, and whose report carries another score
C5_Witness ==
    \E j \in DOMAIN JOB_STATUS :
        /\ JOB_STATUS[j].status = "DONE" /\ loc[j].sugg_failed
        /\ loc[j].fit_core[1].fit_score = 90
        /\ loc[j].json_report[1].fit_score # 90
        /\ \E k \in DOMAIN JOB_STATUS :
               /\ JOB_STATUS[k].status = "DONE" /\ ~loc[k].sugg_failed
               /\ loc[k].fit_core[1].fit_score = 0
               /\ loc[k].json_report[1].fit_score > 0

\* what a well-formed entry of the status map looks like, by status
WellFormedEntry(j, e) ==
    /\ e.status \in {"UPLOADED", "RUNNING", "DONE", "ERROR"}
    /\ e.status = "DONE" =>
           /\ DOMAIN e = {"status", "error", "json_path", "html_path"}
           /\ e.error = NoneVal
           /\ e.json_path = JsonPath(j) /\ e.html_path = HtmlPath(j)
    /\ e.status = "ERROR" =>
           /\ "error" \in DOMAIN e
           /\ e.error # NoneVal
    /\ e.status \in {"UPLOADED", "RUNNING"} =>
           /\ DOMAIN e = {"status", "error"}
           /\ e.error = NoneVal

NotFoundBody == [status |-> "NOT_FOUND", error |-> NoneVal]

\* C11: every entry of the status map is well-formed for its status: DONE carries
\* json_path and html_path and error None; ERROR carries an error string (str(e) of
\* the exception, or upload()'s message), never None; UPLOADED and RUNNING have
\* error None and no output path.  A status read answers the stored entry as it is,
\* so it never shows DONE without the two paths, and for an id with no entry it
\* answers 404 NOT_FOUND, which is the status of no stored entry.
C11_EntriesWellFormed ==
    /\ \A j \in DOMAIN JOB_STATUS : WellFormedEntry(j, JOB_STATUS[j])
    /\ \A id \in JobIds :
           IF id \in DOMAIN JOB_STATUS
           THEN /\ api_status(id) = [code |-> 200, body |-> JOB_STATUS[id]]
                /\ api_status(id).body.status # "NOT_FOUND"
           ELSE api_status(id) = [code |-> 404, body |-> NotFoundBody]
    /\ resp # <<>> =>
           \/ resp[1] = [code |-> 404, body |-> NotFoundBody]
           \/ /\ resp[1].code = 200
              /\ \E j \in DOMAIN JOB_STATUS : resp[1].body = JOB_STATUS[j]
              /\ resp[1].body.status = "DONE" =>
                     {"json_path", "html_path"} \subseteq DOMAIN resp[1].body

\* a read that has just answered a DONE entry with its two paths, while another
\* job's entry is ERROR with the message of the exception that ended it
C11_Witness ==
    \E j, k \in DOMAIN JOB_STATUS :
        /\ JOB_STATUS[j].status = "DONE"
        /\ resp = <<[code |-> 200, body |-> JOB_STATUS[j]]>>
        /\ resp[1].body.json_path = JsonPath(j)
        /\ JOB_STATUS[k].status = "ERROR" /\ wpc[k] = "finished"
        /\ JOB_STATUS[k].error = loc[k].exc[1]

\* a step of job j's background worker: its position moves, from anywhere but "none"
\* (the move from "none" is upload() queueing the task)
WorkerStep(j) == wpc[j] # "none" /\ wpc'[j] # wpc[j]

EntryOf(m, j) == IF j \in DOMAIN m THEN <<m[j]>> ELSE <<>>

\* what job j's worker has written so far, by its position
WorkerWritesSoFar ==
    \A j \in JobIds :
        LET w == loc[j].status_writes
        IN  /\ wpc[j] \in {"none", "queued"} => w = <<>>
            /\ wpc[j] \notin {"none", "queued", "finished"} =>
                   /\ w = <<"RUNNING">>
                   /\ StatusOf(j) = "RUNNING"
            /\ wpc[j] = "finished" =>
                   /\ Len(w) = 2 /\ w[1] = "RUNNING" /\ w[2] \in Terminal
                   /\ StatusOf(j) = w[2]

\* a worker step touches its own entry only, and touches it exactly when it
\* records a write
WorkerWritesOwnEntry ==
    \A j \in JobIds :
        WorkerStep(j) =>
            /\ \A k \in JobIds \ {j} : EntryOf(JOB_STATUS', k) = EntryOf(JOB_STATUS, k)
            /\ (EntryOf(JOB_STATUS', j) # EntryOf(JOB_STATUS, j))
                   <=> (Len(loc'[j].status_writes) = Len(loc[j].status_writes) + 1)

\* C13: with jobs running concurrently, each job's background worker writes the
\* status map exactly twice, RUNNING first and then one of DONE and ERROR, and in
\* every interleaving a step of one job's worker leaves every other job's entry
\* as it was.
C13_WorkerWritesTwiceOwnEntry == []WorkerWritesSoFar /\ [][WorkerWritesOwnEntry]_vars

\* one worker has made its two writes and ended in DONE while the other job's
\* worker, having written RUNNING, is in its except clause about to write ERROR
C13_Witness ==
    \E j, k \in DOMAIN JOB_STATUS :
        /\ wpc[j] = "finished" /\ loc[j].status_writes = <<"RUNNING", "DONE">>
        /\ JOB_STATUS[j].status = "DONE"
        /\ wpc[k] = "except" /\ loc[k].status_writes = <<"RUNNING">>
        /\ JOB_STATUS[k].status = "RUNNING"

\* two validated stage-1 results that differ at most in the fit_score they state
SameButScore(a, b) ==
    /\ a.confidence = b.confidence
    /\ a.must_have_match = b.must_have_match
    /\ a.nice_to_have_match = b.nice_to_have_match
    /\ a.gaps = b.gaps

\* the stage-2 user prompts a job's pipeline has sent to the client
Stage2Prompts(j) ==
    SelectSeq(loc[j].llm_calls, LAMBDA c : c.template = "hr_fit_suggestions_user.md")

\* C14: the fit_score stated by the stage-1 response influences nothing after
\* stage 1: two pipeline runs (here the two jobs) whose stage-1 results differ only
\* in that value send the same stage-2 prompt, and, given the same stage-2 outcome,
\* write the same report and render the same page and decision.
C14_Stage1ScoreInfluencesNothing ==
    \A j, k \in JobIds :
        ( /\ loc[j].fit_core # <<>> /\ loc[k].fit_core # <<>>
          /\ SameButScore(loc[j].fit_core[1], loc[k].fit_core[1]) ) =>
            /\ (Stage2Prompts(j) # <<>> /\ Stage2Prompts(k) # <<>>) =>
                   Stage2Prompts(j) = Stage2Prompts(k)
            /\ ( /\ loc[j].json_report # <<>> /\ loc[k].json_report # <<>>
                 /\ loc[j].suggestions = loc[k].suggestions ) =>
                   loc[j].json_report = loc[k].json_report
            /\ ( /\ loc[j].html_report # <<>> /\ loc[k].html_report # <<>>
                 /\ loc[j].suggestions = loc[k].suggestions ) =>
                   loc[j].html_report = loc[k].html_report

\* C15: every job recorded as UPLOADED eventually leaves UPLOADED, whichever step
\* of upload() fails: it becomes ERROR, or its worker is scheduled and sets RUNNING.
C15_UploadedEventuallyLeaves ==
    \A j \in JobIds : (StatusOf(j) = "UPLOADED") ~> (StatusOf(j) # "UPLOADED")

====
